---------------------------- MODULE Spec2Model ----------------------------
(***************************************************************************)
(* Library-Management (Go + Fiber + MongoDB), src/main.go.                 *)
(*                                                                         *)
(* The state is the two MongoDB collections (users, books), the ids the    *)
(* store has generated so far, and one record per request being handled.   *)
(* A handler is a sequence of store operations; one action is one store    *)
(* operation together with the handler code that runs until the next store *)
(* operation (or until the response).  Requests carry well-formed ids.     *)
(***************************************************************************)
EXTENDS Integers, Sequences, FiniteSets, TLC

\* ------------------------------------------------------------- bounds
MaxUsers == 2
MaxBooks == 3
NumProcs == 2
MaxRequests == 7

\* ------------------------------------------------- program constants
LendingLimit == 2
StatusOK == 200
StatusCreated == 201
StatusBadRequest == 400
StatusUnauthorized == 401
StatusNotFound == 404
StatusInternalServerError == 500
Nil == 0

Names == {"alice", "bob"}
Titles == {"Dune"}

UserIds == 1..MaxUsers
BookIds == 1..MaxBooks
Procs == 1..NumProcs

VARIABLES
    users,        \* userCollection: user id -> [username, books]
    books,        \* bookCollection: book id -> [title, borrower]
    nextUserId,   \* the next _id the store generates for a user
    nextBookId,   \* the next _id the store generates for a book
    req,          \* per request slot: the handler running there and its position
    nreq,         \* requests begun so far (counted when requests overlap)
    serial,       \* TRUE: the requests run one at a time; FALSE: they overlap
    hist          \* history: the collections when the latest borrow that passed
                  \* its checks began, whether it succeeded (valid) or was
                  \* compensated (undone)

vars == <<users, books, nextUserId, nextBookId, req, nreq, serial, hist>>

sched == <<nreq, serial>>

\* ------------------------------------------------------ documents
User(name) == [username |-> name, books |-> <<>>]

Book(title) == [title |-> title, borrower |-> Nil]

\* ------------------------------------------------ store operations
CountDocuments(us, name) == Cardinality({x \in DOMAIN us : us[x].username = name})

InsertOne(coll, id, doc) ==
    [x \in DOMAIN coll \cup {id} |-> IF x = id THEN doc ELSE coll[x]]

DeleteOne(coll, id) == [x \in DOMAIN coll \ {id} |-> coll[x]]

\* Variant: a compare-and-set, the filter also asking for a free book.
SetBorrowerIfFree(bs, b, v) ==
    IF b \in DOMAIN bs /\ (v = Nil \/ bs[b].borrower = Nil)
    THEN [bs EXCEPT ![b].borrower = v]
    ELSE bs

SetBorrower(bs, b, v) ==
    IF b \in DOMAIN bs THEN [bs EXCEPT ![b].borrower = v] ELSE bs

\* Variant: $set in place of $push, the list becomes the one book.
PushBookOverwrite(us, u, b) ==
    IF u \in DOMAIN us THEN [us EXCEPT ![u].books = <<b>>] ELSE us

\* Variant: $push with $each [b, b], the id is appended twice.
PushBookTwice(us, u, b) ==
    IF u \in DOMAIN us
    THEN [us EXCEPT ![u].books = Append(Append(@, b), b)]
    ELSE us

PushBook(us, u, b) ==
    IF u \in DOMAIN us THEN [us EXCEPT ![u].books = Append(@, b)] ELSE us

\* Variant: $pop in place of $pull, the first entry is removed.
PullBookHead(us, u, b) ==
    IF u \in DOMAIN us /\ us[u].books # <<>>
    THEN [us EXCEPT ![u].books = Tail(@)]
    ELSE us

PullBook(us, u, b) ==
    IF u \in DOMAIN us
    THEN [us EXCEPT ![u].books = SelectSeq(@, LAMBDA x : x # b)]
    ELSE us

\* ------------------------------------------------- handler checks
\* Variant: count > 1 in place of count > 0.
UsernameTakenOffByOne(us, name) == CountDocuments(us, name) > 1

UsernameTaken(us, name) == CountDocuments(us, name) > 0

\* Variant: > in place of >=.
LimitReachedOffByOne(user) == Len(user.books) > LendingLimit

LimitReached(user) == Len(user.books) >= LendingLimit

\* Variant: the check reads a borrower field that was never decoded.
AlreadyBorrowedUnchecked(book) == Book(book.title).borrower # Nil

\* Variant: a borrower that is no user any more does not count.
AlreadyBorrowedByUser(book) == book.borrower \in DOMAIN users

AlreadyBorrowed(book) == book.borrower # Nil

\* Variant: the comparison with the caller is missing.
NotOwnerNilOnly(book, u) == book.borrower = Nil

NotOwner(book, u) == book.borrower = Nil \/ book.borrower # u

\* ------------------------------------------------------- requests
Idle == [op |-> "idle", pc |-> "idle", uid |-> 0, bid |-> 0,
         name |-> "", title |-> "", status |-> 0]

NoHist == [valid |-> FALSE, undone |-> FALSE, uid |-> 0, bid |-> 0,
           users |-> <<>>, books |-> <<>>]

Respond(r, code) == [r EXCEPT !.pc = "done", !.status = code]

AllIdle == \A q \in Procs : req[q] = Idle

InFlight(p) == req[p].pc \notin {"idle", "done"}

\* A request arrives at a free slot.  When requests run one at a time they
\* all pass through the first slot, each after the one before has been answered.
Arrive(p) ==
    /\ req[p] = Idle
    /\ IF serial THEN p = 1 /\ AllIdle ELSE nreq < MaxRequests
    /\ nreq' = IF serial THEN nreq ELSE nreq + 1
    /\ serial' = serial

\* The history variable: a request that begins ends the window in which a
\* return(u, b) immediately follows the successful borrow(u, b).
BeginHist(op, u, b) ==
    IF op = "return" /\ hist.valid /\ hist.uid = u /\ hist.bid = b
    THEN hist
    ELSE NoHist

\* The history of a borrow(u, b) that begins and passes the user checks.
BorrowHist(passed, u, b) ==
    IF serial /\ passed
    THEN [valid |-> FALSE, undone |-> FALSE, uid |-> u, bid |-> b,
          users |-> users, books |-> books]
    ELSE NoHist

Init ==
    /\ users = [x \in {} |-> User("")]
    /\ books = [x \in {} |-> Book("")]
    /\ nextUserId = 1
    /\ nextBookId = 1
    /\ req = [p \in Procs |-> Idle]
    /\ nreq = 0
    /\ hist = NoHist

InitConcurrent == Init /\ serial = FALSE

InitSerial == Init /\ serial = TRUE

\* ------------------------------------------------------ registerUser
\* CountDocuments by username, then the duplicate check.
RegisterCount(p, n) ==
    /\ Arrive(p)
    /\ LET r == [Idle EXCEPT !.op = "register", !.name = n]
       IN IF UsernameTaken(users, n)
          THEN req' = [req EXCEPT ![p] = Respond(r, StatusBadRequest)]
          ELSE /\ nextUserId + Cardinality({q \in Procs : req[q].pc = "insert"}) <= MaxUsers
               /\ req' = [req EXCEPT ![p] = [r EXCEPT !.pc = "insert"]]
    /\ hist' = BeginHist("register", 0, 0)
    /\ UNCHANGED <<users, books, nextUserId, nextBookId>>

\* InsertOne of the new user, with an empty book list.
RegisterInsert(p) ==
    /\ req[p].op = "register" /\ req[p].pc = "insert"
    /\ users' = InsertOne(users, nextUserId, User(req[p].name))
    /\ nextUserId' = nextUserId + 1
    /\ req' = [req EXCEPT ![p] = Respond(@, StatusCreated)]
    /\ UNCHANGED <<books, nextBookId, sched, hist>>

\* --------------------------------------------------------- loginUser
\* FindOne by username, then the hash comparison; match is whether the
\* password of the request is the one the stored hash was made from.
LoginUser(p, n, match) ==
    /\ Arrive(p)
    /\ LET r == [Idle EXCEPT !.op = "login", !.name = n]
       IN req' = [req EXCEPT ![p] =
                    IF ~UsernameTaken(users, n) THEN Respond(r, StatusNotFound)
                    ELSE IF ~match THEN Respond(r, StatusUnauthorized)
                    ELSE Respond(r, StatusOK)]
    /\ hist' = BeginHist("login", 0, 0)
    /\ UNCHANGED <<users, books, nextUserId, nextBookId>>

\* ----------------------------------------------------------- getUser
\* FindOne by id.
GetUser(p, u) ==
    /\ Arrive(p)
    /\ LET r == [Idle EXCEPT !.op = "getUser", !.uid = u]
       IN req' = [req EXCEPT ![p] =
                    IF u \in DOMAIN users THEN Respond(r, StatusOK)
                    ELSE Respond(r, StatusNotFound)]
    /\ hist' = BeginHist("getUser", u, 0)
    /\ UNCHANGED <<users, books, nextUserId, nextBookId>>

\* -------------------------------------------------------- deleteUser
\* Variant: the deletion also makes the books of the deleted user available.
DeleteUserCascade(p, u) ==
    /\ Arrive(p)
    /\ LET r == [Idle EXCEPT !.op = "deleteUser", !.uid = u]
       IN IF u \in DOMAIN users
          THEN /\ users' = DeleteOne(users, u)
               /\ req' = [req EXCEPT ![p] = Respond(r, StatusOK)]
          ELSE /\ users' = users
               /\ req' = [req EXCEPT ![p] = Respond(r, StatusNotFound)]
    /\ books' = [b \in DOMAIN books |->
                  IF books[b].borrower = u
                  THEN [books[b] EXCEPT !.borrower = Nil]
                  ELSE books[b]]
    /\ hist' = BeginHist("deleteUser", u, 0)
    /\ UNCHANGED <<nextUserId, nextBookId>>

\* DeleteOne by id; DeletedCount = 0 answers NotFound.
DeleteUser(p, u) ==
    /\ Arrive(p)
    /\ LET r == [Idle EXCEPT !.op = "deleteUser", !.uid = u]
       IN IF u \in DOMAIN users
          THEN /\ users' = DeleteOne(users, u)
               /\ req' = [req EXCEPT ![p] = Respond(r, StatusOK)]
          ELSE /\ users' = users
               /\ req' = [req EXCEPT ![p] = Respond(r, StatusNotFound)]
    /\ hist' = BeginHist("deleteUser", u, 0)
    /\ UNCHANGED <<books, nextUserId, nextBookId>>

\* ----------------------------------------------------------- addBook
\* InsertOne of a book with no borrower.
AddBook(p, t) ==
    /\ Arrive(p)
    /\ nextBookId <= MaxBooks
    /\ books' = InsertOne(books, nextBookId, Book(t))
    /\ nextBookId' = nextBookId + 1
    /\ req' = [req EXCEPT ![p] =
                 Respond([Idle EXCEPT !.op = "addBook", !.title = t], StatusCreated)]
    /\ hist' = BeginHist("addBook", 0, 0)
    /\ UNCHANGED <<users, nextUserId>>

\* --------------------------------------------------------- listBooks
\* Find with an empty filter, then cursor.All.
ListBooks(p) ==
    /\ Arrive(p)
    /\ req' = [req EXCEPT ![p] = Respond([Idle EXCEPT !.op = "listBooks"], StatusOK)]
    /\ hist' = BeginHist("listBooks", 0, 0)
    /\ UNCHANGED <<users, books, nextUserId, nextBookId>>

\* -------------------------------------------------------- borrowBook
\* Variant: the book is looked up before the lending limit is checked.
BorrowLoadUserBookFirst(p, u, b) ==
    /\ Arrive(p)
    /\ LET r == [Idle EXCEPT !.op = "borrow", !.uid = u, !.bid = b]
       IN req' = [req EXCEPT ![p] =
                    IF u \notin DOMAIN users THEN Respond(r, StatusNotFound)
                    ELSE IF b \notin DOMAIN books THEN Respond(r, StatusNotFound)
                    ELSE IF LimitReached(users[u]) THEN Respond(r, StatusBadRequest)
                    ELSE [r EXCEPT !.pc = "loadBook"]]
    /\ hist' = BorrowHist(req'[p].pc = "loadBook", u, b)
    /\ UNCHANGED <<users, books, nextUserId, nextBookId>>

\* FindOne on the user, then the lending-limit check.
BorrowLoadUser(p, u, b) ==
    /\ Arrive(p)
    /\ LET r == [Idle EXCEPT !.op = "borrow", !.uid = u, !.bid = b]
       IN req' = [req EXCEPT ![p] =
                    IF u \notin DOMAIN users THEN Respond(r, StatusNotFound)
                    ELSE IF LimitReached(users[u]) THEN Respond(r, StatusBadRequest)
                    ELSE [r EXCEPT !.pc = "loadBook"]]
    /\ hist' = BorrowHist(req'[p].pc = "loadBook", u, b)
    /\ UNCHANGED <<users, books, nextUserId, nextBookId>>

\* FindOne on the book, then the already-borrowed check.
BorrowLoadBook(p) ==
    /\ req[p].op = "borrow" /\ req[p].pc = "loadBook"
    /\ LET b == req[p].bid
       IN req' = [req EXCEPT ![p] =
                    IF b \notin DOMAIN books THEN Respond(@, StatusNotFound)
                    ELSE IF AlreadyBorrowed(books[b]) THEN Respond(@, StatusBadRequest)
                    ELSE [@ EXCEPT !.pc = "setBorrower"]]
    /\ hist' = IF req'[p].pc = "setBorrower" THEN hist ELSE NoHist
    /\ UNCHANGED <<users, books, nextUserId, nextBookId, sched>>

\* UpdateOne on the book: $set borrower_id to the user.
BorrowSetBorrower(p) ==
    /\ req[p].op = "borrow" /\ req[p].pc = "setBorrower"
    /\ books' = SetBorrower(books, req[p].bid, req[p].uid)
    /\ req' = [req EXCEPT ![p].pc = "pushBook"]
    /\ UNCHANGED <<users, nextUserId, nextBookId, sched, hist>>

\* UpdateOne on the user: $push the book id to books.
BorrowPushBook(p) ==
    /\ req[p].op = "borrow" /\ req[p].pc = "pushBook"
    /\ users' = PushBook(users, req[p].uid, req[p].bid)
    /\ req' = [req EXCEPT ![p] = Respond(@, StatusOK)]
    /\ hist' = IF serial THEN [hist EXCEPT !.valid = TRUE] ELSE NoHist
    /\ UNCHANGED <<books, nextUserId, nextBookId, sched>>

\* -------------------------------------------------------- returnBook
\* Variant: the user is loaded first and must exist.
ReturnLoadBookLoadsUser(p, u, b) ==
    /\ Arrive(p)
    /\ LET r == [Idle EXCEPT !.op = "return", !.uid = u, !.bid = b]
       IN req' = [req EXCEPT ![p] =
                    IF u \notin DOMAIN users THEN Respond(r, StatusNotFound)
                    ELSE IF b \notin DOMAIN books THEN Respond(r, StatusNotFound)
                    ELSE IF NotOwner(books[b], u) THEN Respond(r, StatusBadRequest)
                    ELSE [r EXCEPT !.pc = "clearBorrower"]]
    /\ hist' = BeginHist("return", u, b)
    /\ UNCHANGED <<users, books, nextUserId, nextBookId>>

\* FindOne on the book, then the ownership check.
ReturnLoadBook(p, u, b) ==
    /\ Arrive(p)
    /\ LET r == [Idle EXCEPT !.op = "return", !.uid = u, !.bid = b]
       IN req' = [req EXCEPT ![p] =
                    IF b \notin DOMAIN books THEN Respond(r, StatusNotFound)
                    ELSE IF NotOwner(books[b], u) THEN Respond(r, StatusBadRequest)
                    ELSE [r EXCEPT !.pc = "clearBorrower"]]
    /\ hist' = BeginHist("return", u, b)
    /\ UNCHANGED <<users, books, nextUserId, nextBookId>>

\* UpdateOne on the book: $set borrower_id to nil.
ReturnClearBorrower(p) ==
    /\ req[p].op = "return" /\ req[p].pc = "clearBorrower"
    /\ books' = SetBorrower(books, req[p].bid, Nil)
    /\ req' = [req EXCEPT ![p].pc = "pullBook"]
    /\ UNCHANGED <<users, nextUserId, nextBookId, sched, hist>>

\* UpdateOne on the user: $pull the book id from books.
ReturnPullBook(p) ==
    /\ req[p].op = "return" /\ req[p].pc = "pullBook"
    /\ users' = PullBook(users, req[p].uid, req[p].bid)
    /\ req' = [req EXCEPT ![p] = Respond(@, StatusOK)]
    /\ UNCHANGED <<books, nextUserId, nextBookId, sched, hist>>

\* The response has been sent; the slot is free for the next request.
Finish(p) ==
    /\ req[p].pc = "done"
    /\ req' = [req EXCEPT ![p] = Idle]
    /\ hist' = IF req[p].op = "return" THEN NoHist ELSE hist
    /\ UNCHANGED <<users, books, nextUserId, nextBookId, sched>>

\* ------------------------------------------- failing store operations
\* A store operation that returns an error (the 5 s deadline, a lost
\* connection) leaves the document as it was; the handler answers as the
\* code does for err != nil.
RegisterCountFail(p, n) ==
    /\ Arrive(p)
    /\ req' = [req EXCEPT ![p] =
                 Respond([Idle EXCEPT !.op = "register", !.name = n],
                         StatusInternalServerError)]
    /\ hist' = NoHist
    /\ UNCHANGED <<users, books, nextUserId, nextBookId>>

\* hashPassword or InsertOne returns an error.
RegisterInsertFail(p) ==
    /\ req[p].op = "register" /\ req[p].pc = "insert"
    /\ req' = [req EXCEPT ![p] = Respond(@, StatusInternalServerError)]
    /\ UNCHANGED <<users, books, nextUserId, nextBookId, sched, hist>>

\* Any error of the FindOne by username answers NotFound.
LoginUserFail(p, n) ==
    /\ Arrive(p)
    /\ req' = [req EXCEPT ![p] =
                 Respond([Idle EXCEPT !.op = "login", !.name = n], StatusNotFound)]
    /\ hist' = NoHist
    /\ UNCHANGED <<users, books, nextUserId, nextBookId>>

\* Any error of the FindOne by id answers NotFound.
GetUserFail(p, u) ==
    /\ Arrive(p)
    /\ req' = [req EXCEPT ![p] =
                 Respond([Idle EXCEPT !.op = "getUser", !.uid = u], StatusNotFound)]
    /\ hist' = NoHist
    /\ UNCHANGED <<users, books, nextUserId, nextBookId>>

\* Find or cursor.All returns an error.
ListBooksFail(p) ==
    /\ Arrive(p)
    /\ req' = [req EXCEPT ![p] =
                 Respond([Idle EXCEPT !.op = "listBooks"], StatusInternalServerError)]
    /\ hist' = NoHist
    /\ UNCHANGED <<users, books, nextUserId, nextBookId>>

DeleteUserFail(p, u) ==
    /\ Arrive(p)
    /\ req' = [req EXCEPT ![p] =
                 Respond([Idle EXCEPT !.op = "deleteUser", !.uid = u],
                         StatusInternalServerError)]
    /\ hist' = NoHist
    /\ UNCHANGED <<users, books, nextUserId, nextBookId>>

AddBookFail(p, t) ==
    /\ Arrive(p)
    /\ req' = [req EXCEPT ![p] =
                 Respond([Idle EXCEPT !.op = "addBook", !.title = t],
                         StatusInternalServerError)]
    /\ hist' = NoHist
    /\ UNCHANGED <<users, books, nextUserId, nextBookId>>

\* Any error of the user FindOne answers NotFound.
BorrowLoadUserFail(p, u, b) ==
    /\ Arrive(p)
    /\ req' = [req EXCEPT ![p] =
                 Respond([Idle EXCEPT !.op = "borrow", !.uid = u, !.bid = b],
                         StatusNotFound)]
    /\ hist' = NoHist
    /\ UNCHANGED <<users, books, nextUserId, nextBookId>>

\* Any error of the book FindOne answers NotFound.
BorrowLoadBookFail(p) ==
    /\ req[p].op = "borrow" /\ req[p].pc = "loadBook"
    /\ req' = [req EXCEPT ![p] = Respond(@, StatusNotFound)]
    /\ hist' = NoHist
    /\ UNCHANGED <<users, books, nextUserId, nextBookId, sched>>

BorrowSetBorrowerFail(p) ==
    /\ req[p].op = "borrow" /\ req[p].pc = "setBorrower"
    /\ req' = [req EXCEPT ![p] = Respond(@, StatusInternalServerError)]
    /\ hist' = NoHist
    /\ UNCHANGED <<users, books, nextUserId, nextBookId, sched>>

\* The $push fails: the handler goes on to the compensating write.
BorrowPushBookFail(p) ==
    /\ req[p].op = "borrow" /\ req[p].pc = "pushBook"
    /\ req' = [req EXCEPT ![p].pc = "compensate"]
    /\ UNCHANGED <<users, books, nextUserId, nextBookId, sched, hist>>

\* Variant: the compensating write matches no document and changes nothing.
BorrowCompensateNoMatch(p) ==
    /\ req[p].op = "borrow" /\ req[p].pc = "compensate"
    /\ books' = books
    /\ req' = [req EXCEPT ![p] = Respond(@, StatusInternalServerError)]
    /\ hist' = [hist EXCEPT !.undone = TRUE]
    /\ UNCHANGED <<users, nextUserId, nextBookId, sched>>

\* The compensating UpdateOne: $set borrower_id to nil, result ignored.
BorrowCompensate(p) ==
    /\ req[p].op = "borrow" /\ req[p].pc = "compensate"
    /\ books' = SetBorrower(books, req[p].bid, Nil)
    /\ req' = [req EXCEPT ![p] = Respond(@, StatusInternalServerError)]
    /\ hist' = [hist EXCEPT !.undone = TRUE]
    /\ UNCHANGED <<users, nextUserId, nextBookId, sched>>

BorrowCompensateFail(p) ==
    /\ req[p].op = "borrow" /\ req[p].pc = "compensate"
    /\ req' = [req EXCEPT ![p] = Respond(@, StatusInternalServerError)]
    /\ UNCHANGED <<users, books, nextUserId, nextBookId, sched, hist>>

\* Any error of the book FindOne answers NotFound.
ReturnLoadBookFail(p, u, b) ==
    /\ Arrive(p)
    /\ req' = [req EXCEPT ![p] =
                 Respond([Idle EXCEPT !.op = "return", !.uid = u, !.bid = b],
                         StatusNotFound)]
    /\ hist' = NoHist
    /\ UNCHANGED <<users, books, nextUserId, nextBookId>>

ReturnClearBorrowerFail(p) ==
    /\ req[p].op = "return" /\ req[p].pc = "clearBorrower"
    /\ req' = [req EXCEPT ![p] = Respond(@, StatusInternalServerError)]
    /\ UNCHANGED <<users, books, nextUserId, nextBookId, sched, hist>>

\* No compensation: the borrower stays cleared, the list keeps the book.
ReturnPullBookFail(p) ==
    /\ req[p].op = "return" /\ req[p].pc = "pullBook"
    /\ req' = [req EXCEPT ![p] = Respond(@, StatusInternalServerError)]
    /\ UNCHANGED <<users, books, nextUserId, nextBookId, sched, hist>>

\* The server process dies: the handlers in flight are gone, the store stays.
Crash ==
    /\ \E p \in Procs : InFlight(p)
    /\ req' = [p \in Procs |-> Idle]
    /\ hist' = NoHist
    /\ UNCHANGED <<users, books, nextUserId, nextBookId, sched>>

\* ------------------------------------------------- specifications
\* A request arrives and its handler runs up to its first store operation.
Begin(p) ==
    \/ \E n \in Names : RegisterCount(p, n)
    \/ \E n \in Names, match \in BOOLEAN : LoginUser(p, n, match)
    \/ \E u \in UserIds : GetUser(p, u)
    \/ \E u \in UserIds : DeleteUser(p, u)
    \/ \E t \in Titles : AddBook(p, t)
    \/ ListBooks(p)
    \/ \E u \in UserIds, b \in BookIds : BorrowLoadUser(p, u, b)
    \/ \E u \in UserIds, b \in BookIds : ReturnLoadBook(p, u, b)

\* A handler in flight performs its next store operation, which succeeds.
Step(p) ==
    \/ RegisterInsert(p)
    \/ BorrowLoadBook(p)
    \/ BorrowSetBorrower(p)
    \/ BorrowPushBook(p)
    \/ ReturnClearBorrower(p)
    \/ ReturnPullBook(p)
    \/ Finish(p)

\* A store operation fails.
Fail(p) ==
    \/ \E n \in Names : RegisterCountFail(p, n)
    \/ RegisterInsertFail(p)
    \/ \E n \in Names : LoginUserFail(p, n)
    \/ \E u \in UserIds : GetUserFail(p, u)
    \/ \E u \in UserIds : DeleteUserFail(p, u)
    \/ \E t \in Titles : AddBookFail(p, t)
    \/ ListBooksFail(p)
    \/ \E u \in UserIds, b \in BookIds : BorrowLoadUserFail(p, u, b)
    \/ BorrowLoadBookFail(p)
    \/ BorrowSetBorrowerFail(p)
    \/ BorrowPushBookFail(p)
    \/ BorrowCompensate(p)
    \/ BorrowCompensateFail(p)
    \/ \E u \in UserIds, b \in BookIds : ReturnLoadBookFail(p, u, b)
    \/ ReturnClearBorrowerFail(p)
    \/ ReturnPullBookFail(p)

Next == \E p \in Procs : Begin(p) \/ Step(p)

NextCrash == Next \/ Crash

NextFaults == Next \/ (\E p \in Procs : Fail(p)) \/ Crash

\* Concurrent requests whose store operations interleave and all succeed.
Spec == InitConcurrent /\ [][Next]_vars

\* Requests that run one at a time and whose store operations all succeed.
SpecSeq == InitSerial /\ [][Next]_vars

\* Requests that run one at a time and whose store operations all succeed;
\* the server may crash between two store operations of a handler.
SpecSeqCrash == InitSerial /\ [][NextCrash]_vars

\* Requests that run one at a time; store operations may fail, the server
\* may crash between two store operations.
SpecSeqFaults == InitSerial /\ [][NextFaults]_vars

\* ------------------------------------------------------------ claims
Range(f) == {f[i] : i \in DOMAIN f}

\* The request in slot p has been answered with status code.
Answered(p, op, code) ==
    req[p].op = op /\ req[p].pc = "done" /\ req[p].status = code

\* C1: in every reachable state, also when the store operations of
\* concurrent requests interleave, every user's book list has at most 2
\* entries.
C1_AtMostTwoBooks == \A u \in DOMAIN users : Len(users[u].books) <= 2

\* C2: with requests one at a time, a borrow(u, b) that arrives while the
\* existing user u holds 2 books is answered 400 whatever b is, and changes
\* neither collection.
C2_LimitRejectsAnyBook ==
    [][\A p \in Procs :
        LET r == req'[p]
        IN (/\ req[p] = Idle
            /\ r.op = "borrow"
            /\ r.uid \in DOMAIN users
            /\ Len(users[r.uid].books) = 2)
           => (/\ r.pc = "done"
               /\ r.status = 400
               /\ users' = users
               /\ books' = books)]_vars

\* C2 witness: a borrow of a book that exists and is available was answered
\* 400 because its user holds 2 books.
C2_Witness ==
    \E p \in Procs :
        /\ Answered(p, "borrow", 400)
        /\ req[p].uid \in DOMAIN users
        /\ Len(users[req[p].uid].books) = 2
        /\ req[p].bid \in DOMAIN books
        /\ books[req[p].bid].borrower = Nil

\* C3: with requests one at a time, a borrow(u2, b) by an existing user u2
\* holding fewer than 2 books, of a book b whose borrower is set, is answered
\* 400; no step of the request changes a borrower or a list.
C3_BorrowedBookRejected ==
    [][\A p \in Procs :
        LET r == req'[p]
        IN (/\ r # req[p]
            /\ r.op = "borrow"
            /\ (req[p] = Idle \/ req[p].pc = "loadBook")
            /\ r.uid \in DOMAIN users
            /\ Len(users[r.uid].books) < 2
            /\ r.bid \in DOMAIN books
            /\ books[r.bid].borrower # Nil)
           => (/\ users' = users
               /\ books' = books
               /\ IF req[p] = Idle
                  THEN r.pc = "loadBook"
                  ELSE r.pc = "done" /\ r.status = 400)]_vars

\* C3 witness: a user holding fewer than 2 books asked for a book lent to
\* another user and was answered 400.
C3_Witness ==
    \E p \in Procs :
        /\ Answered(p, "borrow", 400)
        /\ req[p].uid \in DOMAIN users
        /\ Len(users[req[p].uid].books) < 2
        /\ req[p].bid \in DOMAIN books
        /\ books[req[p].bid].borrower \notin {Nil, req[p].uid}

\* C4: a return(u, b) of an existing book b whose borrower is absent or is
\* not u is answered 400 and writes nothing, also when b is in u's list.
C4_ReturnByNonOwnerRejected ==
    [][\A p \in Procs :
        LET r == req'[p]
        IN (/\ req[p] = Idle
            /\ r.op = "return"
            /\ r.bid \in DOMAIN books
            /\ (books[r.bid].borrower = Nil \/ books[r.bid].borrower # r.uid))
           => (/\ r.pc = "done"
               /\ r.status = 400
               /\ users' = users
               /\ books' = books)]_vars

\* C4 witness: a return was answered 400 although the book is in the
\* caller's list, the book's borrower being someone else or absent.
C4_Witness ==
    \E p \in Procs :
        /\ Answered(p, "return", 400)
        /\ req[p].uid \in DOMAIN users
        /\ req[p].bid \in Range(users[req[p].uid].books)
        /\ req[p].bid \in DOMAIN books
        /\ books[req[p].bid].borrower # req[p].uid

\* C5: with requests one at a time and no store failure, the return(u, b)
\* that immediately follows a successful borrow(u, b) is answered 200 and
\* leaves both collections as they were before the borrow.
C5_BorrowReturnRoundTrip ==
    \A p \in Procs :
        (/\ req[p].op = "return"
         /\ req[p].pc = "done"
         /\ hist.valid
         /\ hist.uid = req[p].uid
         /\ hist.bid = req[p].bid)
        => (/\ req[p].status = 200
            /\ users = hist.users
            /\ books = hist.books
            /\ books[req[p].bid].borrower = Nil)

\* C5 witness: the round trip has been completed by a user who holds
\* another book all along.
C5_Witness ==
    \E p \in Procs :
        /\ Answered(p, "return", 200)
        /\ hist.valid
        /\ hist.uid = req[p].uid
        /\ hist.bid = req[p].bid
        /\ req[p].uid \in DOMAIN users
        /\ Len(users[req[p].uid].books) = 1
        /\ users = hist.users

\* C6: with requests one at a time and no store failure, whenever no request
\* is in flight, for every existing user U and every book b: b's borrower is
\* U iff b is in U's list.
C6_BorrowerIffListed ==
    (\A p \in Procs : ~InFlight(p))
    => \A U \in DOMAIN users, b \in DOMAIN books :
          (books[b].borrower = U) <=> (b \in Range(users[U].books))

\* C6 witness: no request is in flight, one user holds two books, and a book
\* is still marked with the id of a deleted user.
C6_Witness ==
    /\ \A p \in Procs : ~InFlight(p)
    /\ \E U \in DOMAIN users : Len(users[U].books) = 2
    /\ \E b \in DOMAIN books :
          books[b].borrower # Nil /\ books[b].borrower \notin DOMAIN users

\* C7: with requests one at a time, a register of a username nobody has
\* creates exactly one user with that name and an empty list and is
\* answered 201; a register of a username that is taken is answered 400 and
\* inserts nothing.
C7_RegisterTwice ==
    [][\A p \in Procs :
        LET r == req'[p]
            taken == \E x \in DOMAIN users : users[x].username = r.name
        IN /\ (req[p] = Idle /\ r.op = "register" /\ taken)
              => (r.pc = "done" /\ r.status = 400 /\ users' = users)
           /\ (req[p] = Idle /\ r.op = "register" /\ ~taken)
              => (r.pc = "insert" /\ users' = users)
           /\ (req[p].op = "register" /\ req[p].pc = "insert" /\ r # req[p])
              => (/\ r.pc = "done"
                  /\ r.status = 201
                  /\ \E id \in UserIds \ DOMAIN users :
                        /\ DOMAIN users' = DOMAIN users \cup {id}
                        /\ users'[id] = [username |-> req[p].name, books |-> <<>>]
                        /\ \A x \in DOMAIN users : users'[x] = users[x])]_vars

\* C7 witness: the second register of a username was answered 400 and the
\* username has exactly one record, with an empty list.
C7_Witness ==
    \E p \in Procs :
        /\ Answered(p, "register", 400)
        /\ \E x \in DOMAIN users :
              /\ users[x] = [username |-> req[p].name, books |-> <<>>]
              /\ \A y \in DOMAIN users : users[y].username = req[p].name => y = x

\* C8: in every reachable state, also when the count and the insert of
\* concurrent registers interleave, no two user records share a username.
C8_UniqueUsernames ==
    \A x, y \in DOMAIN users : users[x].username = users[y].username => x = y

\* C9: a borrow that has passed its checks writes unconditionally: its book
\* write makes it the borrower whoever wrote before, its list write appends
\* the book, and it is answered 200.  Two concurrent borrows of one available
\* book by different users can therefore both succeed.
C9_LastWriterWins ==
    [][\A p \in Procs :
        LET r == req[p]
        IN /\ (r.op = "borrow" /\ r.pc = "setBorrower" /\ req'[p] # r)
              => (/\ req'[p].pc = "pushBook"
                  /\ r.bid \in DOMAIN books => books'[r.bid].borrower = r.uid)
           /\ (r.op = "borrow" /\ r.pc = "pushBook" /\ req'[p] # r)
              => (/\ req'[p].pc = "done"
                  /\ req'[p].status = 200
                  /\ r.uid \in DOMAIN users
                     => users'[r.uid].books = Append(users[r.uid].books, r.bid))]_vars

\* C9 witness: two borrows of the same book by different users were both
\* answered 200, the book is in both lists, and its borrower is one of them.
C9_Witness ==
    \E p, q \in Procs :
        /\ Answered(p, "borrow", 200)
        /\ Answered(q, "borrow", 200)
        /\ req[p].bid = req[q].bid
        /\ req[p].uid # req[q].uid
        /\ req[p].uid \in DOMAIN users /\ req[q].uid \in DOMAIN users
        /\ req[p].bid \in Range(users[req[p].uid].books)
        /\ req[p].bid \in Range(users[req[q].uid].books)
        /\ books[req[p].bid].borrower \in {req[p].uid, req[q].uid}

\* A book whose borrower is the id of a deleted user.
Orphaned(b) ==
    /\ b \in DOMAIN books
    /\ books[b].borrower # Nil
    /\ books[b].borrower \notin DOMAIN users

\* The step is a successful deleteUser.
DeleteUserStep ==
    \E p \in Procs :
        req[p] = Idle /\ req'[p].op = "deleteUser" /\ req'[p].status = 200

\* C10 as stated: a deleteUser leaves every borrower as it is, and the
\* borrower of a book held by a deleted user is never absent again.
C10_OrphanIsPermanent ==
    [][/\ DeleteUserStep => books' = books
       /\ \A b \in BookIds : Orphaned(b) => books'[b].borrower # Nil]_vars

\* C10 amended: a deleteUser leaves every borrower as it is, and the borrower
\* of a book held by a deleted user U changes only by the book write of a
\* return(U, b), which clears it.
C10_OrphanClearedOnlyByReturn ==
    [][/\ DeleteUserStep => books' = books
       /\ \A b \in BookIds :
             Orphaned(b) =>
                \/ books'[b].borrower = books[b].borrower
                \/ /\ books'[b].borrower = Nil
                   /\ \E p \in Procs :
                         /\ req[p].op = "return"
                         /\ req[p].pc = "clearBorrower"
                         /\ req[p].uid = books[b].borrower
                         /\ req[p].bid = b
                         /\ req'[p].pc = "pullBook"]_vars

\* C10 witness: after the deletion of its holder a book is still marked
\* borrowed, and a later borrow of it by a user with room was answered 400.
C10_Witness ==
    \E p \in Procs :
        /\ Answered(p, "borrow", 400)
        /\ req[p].uid \in DOMAIN users
        /\ Len(users[req[p].uid].books) < 2
        /\ Orphaned(req[p].bid)

\* The step of slot p that starts a borrow request.
BorrowBegins(p) == req[p] = Idle /\ req'[p].op = "borrow"

\* The step of slot p that a borrow request takes from position pc.
BorrowStepsFrom(p, pc) ==
    req[p].op = "borrow" /\ req[p].pc = pc /\ req'[p] # req[p]

\* C11: borrow(u, b) checks in a fixed order and reports the first failure:
\* user absent -> 404, list length >= 2 -> 400, book absent -> 404, borrower
\* set -> 400; the checking steps write nothing, and only after all four
\* checks passed is the borrower of b set to u and then b appended to the
\* list of u, which answers 200.
C11_BorrowCheckOrder ==
    [][\A p \in Procs :
        /\ BorrowBegins(p) =>
              LET u == req'[p].uid
              IN /\ users' = users /\ books' = books
                 /\ IF u \notin DOMAIN users
                    THEN req'[p].pc = "done" /\ req'[p].status = 404
                    ELSE IF Len(users[u].books) >= 2
                    THEN req'[p].pc = "done" /\ req'[p].status = 400
                    ELSE req'[p].pc = "loadBook"
        /\ BorrowStepsFrom(p, "loadBook") =>
              LET b == req[p].bid
              IN /\ users' = users /\ books' = books
                 /\ IF b \notin DOMAIN books
                    THEN req'[p].pc = "done" /\ req'[p].status = 404
                    ELSE IF books[b].borrower # Nil
                    THEN req'[p].pc = "done" /\ req'[p].status = 400
                    ELSE req'[p].pc = "setBorrower"
        /\ BorrowStepsFrom(p, "setBorrower") =>
              /\ users' = users
              /\ books' = [books EXCEPT ![req[p].bid].borrower = req[p].uid]
              /\ req'[p].pc = "pushBook"
        /\ BorrowStepsFrom(p, "pushBook") =>
              LET u == req[p].uid
              IN /\ books' = books
                 /\ users' = IF u \in DOMAIN users
                             THEN [users EXCEPT ![u].books =
                                     Append(@, req[p].bid)]
                             ELSE users
                 /\ req'[p].pc = "done" /\ req'[p].status = 200
        /\ (req'[p].op = "borrow" /\ req'[p].pc = "done"
              /\ req'[p] # req[p] /\ req'[p].status # 200) =>
              users' = users /\ books' = books]_vars

\* A borrow was answered 400 for a user at the limit although the book it
\* named does not exist: the limit is reported before the book is looked up.
C11_Witness ==
    \E p \in Procs :
        /\ Answered(p, "borrow", 400)
        /\ req[p].uid \in DOMAIN users
        /\ Len(users[req[p].uid].books) = 2
        /\ req[p].bid \notin DOMAIN books

\* C12: in a borrow(u, b) that no other request interleaves, when the write
\* appending b to the list of u fails and the compensating write succeeds,
\* the answer is 500 and both collections are as they were when the request
\* began: b has no borrower and the list of u is unchanged.
C12_CompensatedBorrowRestores ==
    \A p \in Procs :
        (/\ req[p].op = "borrow" /\ req[p].pc = "done"
         /\ hist.undone
         /\ hist.uid = req[p].uid /\ hist.bid = req[p].bid)
        => /\ req[p].status = 500
           /\ users = hist.users
           /\ books = hist.books
           /\ books[req[p].bid].borrower = 0
           /\ users[req[p].uid].books = hist.users[req[p].uid].books

\* A borrow was answered after its append failed and its compensating write
\* succeeded, for a user who already holds another book.
C12_Witness ==
    \E p \in Procs :
        /\ Answered(p, "borrow", 500)
        /\ hist.undone
        /\ hist.bid = req[p].bid
        /\ Len(users[req[p].uid].books) = 1

\* A book marked borrowed that the list of its borrower lacks, while no
\* borrow of it is between its two writes.
Stranded(b) ==
    /\ b \in DOMAIN books
    /\ books[b].borrower # Nil
    /\ books[b].borrower \in DOMAIN users =>
          b \notin Range(users[books[b].borrower].books)
    /\ \A p \in Procs :
          ~(req[p].op = "borrow" /\ req[p].bid = b /\ req[p].pc = "pushBook")

\* The server dies while the borrow of slot p is between its two writes.
CrashInBorrow(p) ==
    req[p].op = "borrow" /\ req[p].pc = "pushBook" /\ req'[p] = Idle

Copies(bs, b) == Cardinality({i \in DOMAIN bs : bs[i] = b})

\* C14: when requests run one at a time and a return(u, b) may crash after
\* clearing the borrower of b and before removing b from the list of u, no
\* later sequence of requests makes the id of a book appear more than once
\* in the list of a user.
C14_NoPhantomCopy ==
    \A u \in DOMAIN users :
        \A b \in BookIds : Copies(users[u].books, b) <= 1

\* The step of slot p that starts a return request.
ReturnBegins(p) == req[p] = Idle /\ req'[p].op = "return"

\* The step that the return request of slot p takes from position pc.
ReturnStepsFrom(p, pc) ==
    req[p].op = "return" /\ req[p].pc = pc /\ req'[p].op = "return"
    /\ req'[p] # req[p]

\* C15: return(u, b) goes on to its writes exactly when book b exists and
\* its borrower is u (404 when b is absent, 400 otherwise); it decides this
\* without the user, so it also does when no user u exists or the list of u
\* lacks b; it then clears the borrower of b, removes b from the list of u
\* if there is one, and answers 200.
C15_ReturnChecksBorrowerOnly ==
    [][\A p \in Procs :
        /\ ReturnBegins(p) =>
              LET b == req'[p].bid
              IN /\ users' = users /\ books' = books
                 /\ IF b \notin DOMAIN books
                    THEN req'[p].pc = "done" /\ req'[p].status = 404
                    ELSE IF books[b].borrower # req'[p].uid
                    THEN req'[p].pc = "done" /\ req'[p].status = 400
                    ELSE req'[p].pc = "clearBorrower"
        /\ ReturnStepsFrom(p, "clearBorrower") =>
              /\ users' = users
              /\ books' = [books EXCEPT ![req[p].bid].borrower = Nil]
              /\ req'[p].pc = "pullBook"
        /\ ReturnStepsFrom(p, "pullBook") =>
              LET u == req[p].uid
                  kept(x) == x # req[p].bid
              IN /\ books' = books
                 /\ users' = IF u \in DOMAIN users
                             THEN [users EXCEPT ![u].books = SelectSeq(@, kept)]
                             ELSE users
                 /\ req'[p].pc = "done" /\ req'[p].status = 200]_vars

\* A return naming a user id that has no user record was answered 200 and
\* the book it named has no borrower.
C15_Witness ==
    \E p \in Procs :
        /\ Answered(p, "return", 200)
        /\ req[p].uid \notin DOMAIN users
        /\ books[req[p].bid].borrower = Nil

\* The step is taken by a request of slot p whose operation is in ops.
StepOf(p, ops) ==
    /\ req'[p] # req[p]
    /\ \/ req[p].op \in ops
       \/ req[p] = Idle /\ req'[p].op \in ops

\* C16: no step removes a book or changes a title; the steps of register,
\* login, getUser, deleteUser, addBook and listBooks leave every existing
\* book as it is; a borrower changes only in a step of a borrow or a return;
\* and a step that adds a book is an addBook answered 201 that adds exactly
\* one book, with no borrower.
C16_BookFrame ==
    [][/\ DOMAIN books \subseteq DOMAIN books'
       /\ \A b \in DOMAIN books : books'[b].title = books[b].title
       /\ \A p \in Procs :
             StepOf(p, {"register", "login", "getUser", "deleteUser",
                        "addBook", "listBooks"})
             => \A b \in DOMAIN books : books'[b] = books[b]
       /\ (\E b \in DOMAIN books : books'[b].borrower # books[b].borrower)
             => \E p \in Procs : StepOf(p, {"borrow", "return"})
       /\ \A p \in Procs :
             (req[p] = Idle /\ req'[p].op = "addBook" /\ req'[p].status = 201)
             => /\ Cardinality(DOMAIN books' \ DOMAIN books) = 1
                /\ \A b \in DOMAIN books' \ DOMAIN books :
                      books'[b].borrower = Nil
       /\ DOMAIN books' # DOMAIN books
             => \E p \in Procs :
                   /\ req[p] = Idle
                   /\ req'[p].op = "addBook" /\ req'[p].status = 201]_vars

\* An addBook was answered 201 while an older book is still marked borrowed
\* by a user who has been deleted; the new book has no borrower.
C16_Witness ==
    \E p \in Procs :
        /\ Answered(p, "addBook", 201)
        /\ books[nextBookId - 1].borrower = Nil
        /\ \E b \in DOMAIN books :
              /\ books[b].borrower # Nil
              /\ books[b].borrower \notin DOMAIN users

\* No request is between two of its store operations.
Quiescent == \A p \in Procs : req[p].pc \in {"idle", "done"}

\* The books whose borrower field is the user id u.
HeldBy(u) == {b \in DOMAIN books : books[b].borrower = u}

\* C17: after any sequence of requests that run one at a time and whose
\* store operations all succeed, no list of a user contains the same book id
\* twice, and the length of the list of every existing user is the number of
\* books whose borrower is that user.
C17_ListsMatchBorrowers ==
    Quiescent =>
        \A u \in DOMAIN users :
            /\ \A i, j \in DOMAIN users[u].books :
                  users[u].books[i] = users[u].books[j] => i = j
            /\ Len(users[u].books) = Cardinality(HeldBy(u))

\* A return was answered 200 and left its user with one book while another
\* user holds one book too.
C17_Witness ==
    \E p \in Procs :
        /\ Answered(p, "return", 200)
        /\ req[p].uid \in DOMAIN users
        /\ Len(users[req[p].uid].books) = 1
        /\ \E v \in DOMAIN users :
              v # req[p].uid /\ Len(users[v].books) = 1

=============================================================================
